---- MODULE Spec2Model ----
(***************************************************************************)
(* The three Playwright verification scripts of src/verification, modelled *)
(* as straight-line programs run by one interpreter.  Every statement of a *)
(* script is one instruction record; the except/finally blocks follow the  *)
(* main body and are reached through the field h of the instructions they  *)
(* guard.  Every browser call that can raise either succeeds or fails, as  *)
(* the page under test decides.                                            *)
(*                                                                         *)
(* Selectors and messages are written without diacritics.                  *)
(***************************************************************************)
EXTENDS Integers, Sequences, FiniteSets

VARIABLES script, pc, status, browser, closeCalls, shots, shotLog, out,
          trace, e, exc, raisedLog

vars == <<script, pc, status, browser, closeCalls, shots, shotLog, out,
          trace, e, exc, raisedLog>>

Scripts == {"comprehensive_verify", "verify", "verify_refactor"}

\* One statement: the call, its argument, the timeout keyword (0: none is
\* passed), its source line, the phase it belongs to (the numbered comment
\* blocks of the script), the first instruction of the enclosing try's
\* handler (0: not inside a try) and the block it sits in.
I(op, arg, timeout, line, ph, h, blk) ==
    [op |-> op, arg |-> arg, timeout |-> timeout, line |-> line,
     ph |-> ph, h |-> h, blk |-> blk]

\* comprehensive_verify.py.  Phases: 1 navigate, 2 initial load,
\* 3 generate and backtest, 4 search.
ComprehensiveProg ==
    << I("launch", "chromium", 0, 5, 0, 0, "main"),
       I("new_page", "", 0, 6, 0, 0, "main"),
       I("print", "Navigating to app...", 0, 9, 1, 0, "main"),
       I("goto", "http://localhost:5173", 0, 10, 1, 0, "main"),
       I("print", "Verifying initial load...", 0, 13, 2, 0, "main"),
       I("wait_for_selector", "h3:has-text('Numeros Mais Sorteados (Top 10)')", 60000, 15, 2, 23, "main"),
       I("wait_for_selector", "h3:has-text('Ultimo Sorteio:')", 10000, 16, 2, 23, "main"),
       I("print", "Testing Generate Game and Backtest...", 0, 23, 3, 0, "main"),
       I("click", "button:has-text('Gerar Jogo')", 0, 25, 3, 26, "main"),
       I("wait_for_selector", "text=Seu jogo sugerido:", 10000, 26, 3, 26, "main"),
       I("wait_for_selector", "text=Probabilidade Historica (Backtest)", 10000, 27, 3, 26, "main"),
       I("wait_for_selector", "text=11 Pontos", 5000, 29, 3, 26, "main"),
       I("screenshot", "verification/success_backtest.png", 0, 31, 3, 26, "main"),
       I("print", "Backtest verified.", 0, 32, 3, 26, "main"),
       I("print", "Testing Search Game...", 0, 39, 4, 0, "main"),
       I("fill", "input[placeholder*='Digite o numero do jogo']", 0, 42, 4, 29, "main"),
       I("click", "button:has-text('Buscar Jogo')", 0, 43, 4, 29, "main"),
       I("wait_for_selector", "text=Dezenas do jogo 3000", 20000, 46, 4, 29, "main"),
       I("screenshot", "verification/success_search.png", 0, 48, 4, 29, "main"),
       I("print", "Search verified.", 0, 49, 4, 29, "main"),
       I("close", "", 0, 55, 4, 0, "main"),
       I("return", "", 0, 55, 4, 0, "main"),
       \* except Exception as e (lines 17-20)
       I("print", "Failed to load initial data.", 0, 18, 2, 0, "except"),
       I("screenshot", "verification/fail_initial_load.png", 0, 19, 2, 0, "except"),
       I("raise", "e", 0, 20, 2, 0, "except"),
       \* except Exception as e (lines 33-36)
       I("print", "Failed during Generate/Backtest verification.", 0, 34, 3, 0, "except"),
       I("screenshot", "verification/fail_backtest.png", 0, 35, 3, 0, "except"),
       I("raise", "e", 0, 36, 3, 0, "except"),
       \* except Exception as e (lines 50-53)
       I("print", "Failed during Search verification.", 0, 51, 4, 0, "except"),
       I("screenshot", "verification/fail_search.png", 0, 52, 4, 0, "except"),
       I("raise", "e", 0, 53, 4, 0, "except") >>

\* verify.py.  Phases: 1 navigate, 2 wait for data, 3 click the button,
\* 4 wait for the suggestion, 5 wait for backtest results, 6 take screenshot.
VerifyProg ==
    << I("launch", "chromium", 0, 5, 0, 0, "main"),
       I("new_page", "", 0, 6, 0, 0, "main"),
       I("goto", "http://localhost:5173", 0, 9, 1, 0, "main"),
       I("print", "Waiting for data to load...", 0, 12, 2, 0, "main"),
       I("wait_for_selector", "h3:has-text('Numeros Mais Sorteados (Top 10)')", 60000, 15, 2, 15, "main"),
       I("print", "Data loaded. Clicking button...", 0, 21, 3, 0, "main"),
       I("click", "button:has-text('Gerar Jogo')", 0, 23, 3, 0, "main"),
       I("print", "Waiting for suggestion...", 0, 26, 4, 0, "main"),
       I("wait_for_selector", "text=Seu jogo sugerido:", 10000, 28, 4, 18, "main"),
       I("wait_for_selector", "text=Probabilidade Historica (Backtest)", 0, 39, 5, 0, "main"),
       I("print", "Success. Taking screenshot...", 0, 42, 6, 0, "main"),
       I("screenshot", "verification/screenshot.png", 0, 43, 6, 0, "main"),
       I("close", "", 0, 45, 6, 0, "main"),
       I("return", "", 0, 45, 6, 0, "main"),
       \* except Exception as e (lines 16-19)
       I("print", "Timeout waiting for data to load. Taking screenshot...", 0, 17, 2, 0, "except"),
       I("screenshot", "verification/error_loading.png", 0, 18, 2, 0, "except"),
       I("raise", "e", 0, 19, 2, 0, "except"),
       \* except Exception as e (lines 29-36)
       I("print", "Timeout waiting for suggestion. Checking if error message appeared...", 0, 30, 4, 0, "except"),
       I("is_visible", ".bg-red-100", 0, 31, 4, 0, "except"),
       I("print", "Error message found!", 0, 32, 4, 0, "except"),
       I("print", "Taking screenshot...", 0, 34, 4, 0, "except"),
       I("screenshot", "verification/error_suggestion_2.png", 0, 35, 4, 0, "except"),
       I("raise", "e", 0, 36, 4, 0, "except") >>

\* verify_refactor.py: the __main__ block with verify_game_search inlined.
\* Phases: 1 navigate, 2 title, 3 fill the input, 4 search.
RefactorProg ==
    << I("launch", "chromium", 0, 31, 0, 0, "main"),
       I("new_page", "", 0, 32, 0, 0, "main"),
       I("goto", "http://localhost:5173", 0, 5, 1, 12, "main"),
       I("wait_for_selector", "h1", 0, 8, 2, 12, "main"),
       I("fill", "#gameNumberInput", 0, 12, 3, 12, "main"),
       I("screenshot", "verification/verification_input.png", 0, 15, 3, 12, "main"),
       I("click", "role=button[name='Buscar Jogo']", 0, 21, 4, 12, "main"),
       I("wait_for_timeout", "1000", 0, 24, 4, 12, "main"),
       I("screenshot", "verification/verification_search.png", 0, 27, 4, 12, "main"),
       \* finally, reached by falling off the try body
       I("close", "", 0, 36, 4, 0, "main"),
       I("return", "", 0, 36, 4, 0, "main"),
       \* finally, reached by an exception, which is re-raised after it
       I("close", "", 0, 36, 4, 0, "finally"),
       I("raise", "pending", 0, 36, 4, 0, "finally") >>

Prog(s) ==
    CASE s = "comprehensive_verify" -> ComprehensiveProg
      [] s = "verify" -> VerifyProg
      [] s = "verify_refactor" -> RefactorProg

Cur == Prog(script)[pc]

NoExc == [at |-> 0, kind |-> "none"]

\* The failure each kind of step raises.
FailureKind(op) ==
    CASE op = "goto" -> "NavigationTimeout"
      [] op \in {"fill", "click"} -> "LocatorNotFound"
      [] op = "wait_for_selector" -> "ConditionTimeout"
      [] op = "screenshot" -> "ScreenshotCaptureFailure"

\* The statement at pc was executed and did not raise.
Advance ==
    /\ pc' = pc + 1
    /\ trace' = Append(trace, pc)

\* The statement at pc raises x: control goes to the handler of the
\* enclosing try, which binds x, or out of the run when there is none.
ThrowContinue(x) ==
    /\ trace' = Append(trace, pc)
    /\ raisedLog' = Append(raisedLog, x)
    /\ IF Cur.h > 0
         THEN pc' = pc + 1 /\ UNCHANGED <<e, exc, status>>
         ELSE pc' = pc /\ exc' = x /\ status' = "raised" /\ e' = e

Throw(x) ==
    /\ trace' = Append(trace, pc)
    /\ raisedLog' = Append(raisedLog, x)
    /\ IF Cur.h > 0
         THEN pc' = Cur.h /\ e' = x /\ UNCHANGED <<exc, status>>
         ELSE pc' = pc /\ exc' = x /\ status' = "raised" /\ e' = e

Failure == [at |-> pc, kind |-> FailureKind(Cur.op)]

At(op) == status = "running" /\ Cur.op = op

Launch ==
    /\ At("launch")
    /\ browser' = "open"
    /\ Advance
    /\ UNCHANGED <<script, status, closeCalls, shots, shotLog, out, e, exc, raisedLog>>

NewPage ==
    /\ At("new_page")
    /\ Advance
    /\ UNCHANGED <<script, status, browser, closeCalls, shots, shotLog, out, e, exc, raisedLog>>

PrintMsg ==
    /\ At("print")
    /\ out' = Append(out, Cur.arg)
    /\ Advance
    /\ UNCHANGED <<script, status, browser, closeCalls, shots, shotLog, e, exc, raisedLog>>

\* goto, fill, click and wait_for_selector change nothing the script
\* observes: they return, or raise.
Goto ==
    /\ At("goto")
    /\ \/ Advance /\ UNCHANGED <<status, e, exc, raisedLog>>
       \/ Throw(Failure)
    /\ UNCHANGED <<script, browser, closeCalls, shots, shotLog, out>>

Fill ==
    /\ At("fill")
    /\ \/ Advance /\ UNCHANGED <<status, e, exc, raisedLog>>
       \/ Throw(Failure)
    /\ UNCHANGED <<script, browser, closeCalls, shots, shotLog, out>>

Click ==
    /\ At("click")
    /\ \/ Advance /\ UNCHANGED <<status, e, exc, raisedLog>>
       \/ Throw(Failure)
    /\ UNCHANGED <<script, browser, closeCalls, shots, shotLog, out>>

WaitForSelector ==
    /\ At("wait_for_selector")
    /\ \/ Advance /\ UNCHANGED <<status, e, exc, raisedLog>>
       \/ Throw(Failure)
    /\ UNCHANGED <<script, browser, closeCalls, shots, shotLog, out>>

\* page.wait_for_timeout(1000): a plain pause.
WaitForTimeout ==
    /\ At("wait_for_timeout")
    /\ Advance
    /\ UNCHANGED <<script, status, browser, closeCalls, shots, shotLog, out, e, exc, raisedLog>>

ScreenshotNoWrite ==
    /\ At("screenshot")
    /\ \/ Advance /\ UNCHANGED <<status, e, exc, raisedLog>>
       \/ Throw(Failure)
    /\ UNCHANGED <<script, browser, closeCalls, out, shots, shotLog>>

\* page.screenshot(path=...): the file is written when the call returns; a
\* call that raises leaves no file.
Screenshot ==
    /\ At("screenshot")
    /\ \/ /\ shots' = shots \cup {Cur.arg}
          /\ shotLog' = Append(shotLog, Cur.arg)
          /\ Advance
          /\ UNCHANGED <<status, e, exc, raisedLog>>
       \/ /\ Throw(Failure)
          /\ UNCHANGED <<shots, shotLog>>
    /\ UNCHANGED <<script, browser, closeCalls, out>>

\* if page.is_visible(...): print(...)
IsVisible ==
    /\ At("is_visible")
    /\ trace' = Append(trace, pc)
    /\ \E visible \in BOOLEAN : pc' = IF visible THEN pc + 1 ELSE pc + 2
    /\ UNCHANGED <<script, status, browser, closeCalls, shots, shotLog, out, e, exc, raisedLog>>

\* raise e, and the re-raise that ends a finally block.
RaiseGeneric ==
    /\ At("raise")
    /\ trace' = Append(trace, pc)
    /\ exc' = [at |-> pc, kind |-> "Exception"]
    /\ status' = "raised"
    /\ UNCHANGED <<script, pc, browser, closeCalls, shots, shotLog, out, e, raisedLog>>

RaiseFallthrough ==
    /\ At("raise")
    /\ trace' = Append(trace, pc)
    /\ IF pc < Len(Prog(script))
         THEN pc' = pc + 1 /\ UNCHANGED <<exc, status>>
         ELSE pc' = pc /\ exc' = e /\ status' = "raised"
    /\ UNCHANGED <<script, browser, closeCalls, shots, shotLog, out, e, raisedLog>>

Raise ==
    /\ At("raise")
    /\ trace' = Append(trace, pc)
    /\ exc' = e
    /\ status' = "raised"
    /\ UNCHANGED <<script, pc, browser, closeCalls, shots, shotLog, out, e, raisedLog>>

Close ==
    /\ At("close")
    /\ browser' = "closed"
    /\ closeCalls' = closeCalls + 1
    /\ Advance
    /\ UNCHANGED <<script, status, shots, shotLog, out, e, exc, raisedLog>>

Return ==
    /\ At("return")
    /\ trace' = Append(trace, pc)
    /\ status' = "returned"
    /\ UNCHANGED <<script, pc, browser, closeCalls, shots, shotLog, out, e, exc, raisedLog>>

Init ==
    /\ script \in Scripts
    /\ pc = 1
    /\ status = "running"
    /\ browser = "none"
    /\ closeCalls = 0
    /\ shots = {}
    /\ shotLog = <<>>
    /\ out = <<>>
    /\ trace = <<>>
    /\ e = NoExc
    /\ exc = NoExc
    /\ raisedLog = <<>>

Next ==
    \/ Launch
    \/ NewPage
    \/ PrintMsg
    \/ Goto
    \/ Fill
    \/ Click
    \/ WaitForSelector
    \/ WaitForTimeout
    \/ Screenshot
    \/ IsVisible
    \/ Raise
    \/ Close
    \/ Return

Spec == Init /\ [][Next]_vars

----
\* Definitions the properties are stated with.

Ins(i) == Prog(script)[i]

IsMain(i) == Ins(i).blk = "main"

MainTrace == SelectSeq(trace, IsMain)

FirstFailed == Ins(raisedLog[1].at)

Executed == {trace[k] : k \in 1..Len(trace)}

\* The paths the handlers of a script write, and those its main body writes.
FailPaths ==
    {Ins(i).arg : i \in {j \in DOMAIN Prog(script) :
                            Ins(j).op = "screenshot" /\ Ins(j).blk = "except"}}

SuccessPaths ==
    {Ins(i).arg : i \in {j \in DOMAIN Prog(script) :
                            Ins(j).op = "screenshot" /\ Ins(j).blk = "main"}}

PhaseOfPath(p) ==
    Ins(CHOOSE j \in DOMAIN Prog(script) :
            Ins(j).op = "screenshot" /\ Ins(j).arg = p).ph

WithHandlers == {"comprehensive_verify", "verify"}

StepOps == {"goto", "fill", "click", "wait_for_selector"}

TypeOK ==
    /\ script \in Scripts
    /\ pc \in 1..Len(Prog(script))
    /\ status \in {"running", "returned", "raised"}
    /\ browser \in {"none", "open", "closed"}
    /\ closeCalls \in Nat
    /\ shots = {shotLog[k] : k \in 1..Len(shotLog)}
    /\ \A i \in DOMAIN Prog(script) :
         Ins(i).h > 0 =>
            /\ Ins(i).blk = "main"
            /\ Ins(Ins(i).h).blk # "main"
            /\ Ins(Ins(i).h - 1).op \in {"return", "raise"}

----
\* C1: every run that has ended, normally or by a failure, has called
\* browser.close() exactly once and left the browser closed.
BrowserClosedExactlyOnce ==
    status # "running" => closeCalls = 1 /\ browser = "closed"

\* C2: whenever a navigate, fill, click or wait step of comprehensive_verify
\* or verify fails and the failure has left run, a failure screenshot has
\* been written.
FailureScreenshotCaptured ==
    (/\ script \in WithHandlers
     /\ status = "raised"
     /\ FirstFailed.op \in StepOps) => shots \cap FailPaths # {}

\* C3: the statements of the main body run in their written order, none is
\* skipped, none runs twice, and once a step has failed no later statement of
\* the main body runs: the last one run is the one that failed first.
FailFastInOrder ==
    /\ \A k \in 1..Len(MainTrace) : MainTrace[k] = k
    /\ \A j, k \in 1..Len(trace) : j # k => trace[j] # trace[k]
    /\ raisedLog # <<>> => MainTrace[Len(MainTrace)] = raisedLog[1].at

FailFastWitness ==
    /\ script = "comprehensive_verify"
    /\ status = "raised"
    /\ raisedLog # <<>>
    /\ raisedLog[1].at = 7
    /\ 25 \in Executed

\* C4: when the screenshot of a failure handler itself fails, the failure
\* that leaves run is still the failure of the step.
OriginalFailureNotMasked ==
    (/\ status = "raised"
     /\ Len(raisedLog) >= 2
     /\ Ins(raisedLog[2].at).op = "screenshot"
     /\ Ins(raisedLog[2].at).blk = "except") => exc = raisedLog[1]

\* C5: a run in which no step failed returns normally having written
\* exactly the designated success screenshots, each once, in order.
Designated ==
    CASE script = "comprehensive_verify" ->
            <<"verification/success_backtest.png", "verification/success_search.png">>
      [] script = "verify" -> <<"verification/screenshot.png">>
      [] script = "verify_refactor" ->
            <<"verification/verification_input.png", "verification/verification_search.png">>

SuccessWritesDesignatedShots ==
    /\ (status # "running" /\ raisedLog = <<>>) =>
          (status = "returned" /\ shotLog = Designated /\ shots \cap FailPaths = {})
    /\ (raisedLog = <<>> /\ Ins(pc).op = "return") => shotLog = Designated

SuccessWitness ==
    /\ script = "comprehensive_verify"
    /\ status = "returned"
    /\ raisedLog = <<>>
    /\ Len(shotLog) = 2

\* C6: when a step failed and the handler's screenshot was written, the
\* failure that leaves run is the one the step raised; and a run in which a
\* step failed never returns normally.
HandlerShotWritten ==
    \E i \in Executed :
        Ins(i).op = "screenshot" /\ Ins(i).blk = "except" /\ Ins(i).arg \in shots

OriginalFailurePropagates ==
    /\ (status = "raised" /\ HandlerShotWritten) => exc = raisedLog[1]
    /\ (status = "raised" /\ Len(raisedLog) = 1) => exc = raisedLog[1]
    /\ raisedLog # <<>> => status # "returned"

OriginalFailureWitness ==
    /\ script = "verify"
    /\ status = "raised"
    /\ HandlerShotWritten
    /\ exc.kind = "ConditionTimeout"
    /\ Ins(exc.at).line = 28

\* C7: every wait_for_selector a run of comprehensive_verify or verify
\* issues is given an explicit timeout.
EveryWaitHasExplicitTimeout ==
    script \in WithHandlers =>
        \A i \in Executed : Ins(i).op = "wait_for_selector" => Ins(i).timeout > 0

\* C8: in comprehensive_verify, success_backtest.png is written only after
\* the click and the three waits succeeded in that order; and when the wait
\* for '11 Pontos' is the step that fails, the run ends with
\* fail_backtest.png written, success_backtest.png not written and the
\* timeout of that wait raised.
BacktestScenario ==
    script = "comprehensive_verify" =>
        /\ "verification/success_backtest.png" \in shots =>
              /\ SubSeq(MainTrace, 9, 13) = <<9, 10, 11, 12, 13>>
              /\ \A k \in 1..Len(raisedLog) : raisedLog[k].at \notin 9..13
        /\ (status # "running" /\ raisedLog # <<>> /\ raisedLog[1].at = 12) =>
              /\ "verification/fail_backtest.png" \in shots
              /\ "verification/success_backtest.png" \notin shots
              /\ status = "raised"
              /\ exc = [at |-> 12, kind |-> "ConditionTimeout"]

\* C9: in comprehensive_verify and verify, before any navigate, fill, click
\* or wait step runs, a message of that step's phase has been printed; so a
\* run that fails has printed a message naming the failing phase.
PhaseAnnounced ==
    script \in WithHandlers =>
        \A k \in 1..Len(trace) :
            (Ins(trace[k]).op \in StepOps /\ IsMain(trace[k])) =>
                \E j \in 1..(k - 1) :
                    /\ Ins(trace[j]).op = "print"
                    /\ Ins(trace[j]).ph = Ins(trace[k]).ph

\* C10: a run of comprehensive_verify or verify writes at most one failure
\* screenshot, never the success and the failure screenshot of one scenario,
\* each path at most once; after a failure in scenario k the success
\* screenshots written are exactly those of the scenarios before k and a
\* failure screenshot written is the one of scenario k.
ScreenshotsMatchOutcome ==
    script \in WithHandlers =>
        /\ Cardinality(shots \cap FailPaths) <= 1
        /\ Len(shotLog) = Cardinality(shots)
        /\ \A p \in shots \cap SuccessPaths : \A q \in shots \cap FailPaths :
              PhaseOfPath(p) # PhaseOfPath(q)
        /\ raisedLog # <<>> =>
              /\ shots \cap SuccessPaths =
                    {p \in SuccessPaths : PhaseOfPath(p) < FirstFailed.ph}
              /\ \A q \in shots \cap FailPaths : PhaseOfPath(q) = FirstFailed.ph

ScreenshotsWitness ==
    /\ script = "comprehensive_verify"
    /\ status = "raised"
    /\ shots = {"verification/success_backtest.png", "verification/fail_search.png"}
====
